---- MODULE Spec2Model ----
(***************************************************************************)
(* A model of the grammar-checking service in src/main.py: the pure        *)
(* functions extract_grammar_issues, calculate_grammar_score and           *)
(* basic_grammar_correction, and the request handler check_grammar with    *)
(* its two model calls, the rule-based fallback and the persistence write. *)
(*                                                                         *)
(* A Python str is a sequence of one-character strings.  Offsets are       *)
(* Python's: 0-based, slices half-open.                                    *)
(***************************************************************************)
EXTENDS Integers, Sequences, FiniteSets, TLC

VARIABLES
    pc,                    \* where the current computation stands
    text,                  \* the original text (a str)
    corrected_text,        \* the corrected text (a Python value)
    issues,                \* the issue list
    score,                 \* the grammar score, -1 before it is computed
    method,                \* the HTTP method of the request
    body,                  \* the body of the request
    firebase_initialized,  \* the module-level flag of main.py 14-27
    primary,               \* what the call of the primary model did
    secondary,             \* what the call of the secondary model did
    persist,               \* what the persistence write did
    calls,                 \* the corrections attempted, in order
    parsed,                \* whether request.get_json() was called
    stored,                \* the documents written to the collection
    status,                \* the HTTP status of the response, 0 before it is sent
    response,              \* the body of the response
    headers                \* the headers set on the response

analysis == <<pc, text, corrected_text, issues, score>>

handling == <<method, body, firebase_initialized, primary, secondary, persist,
              calls, parsed, stored, status, response, headers>>

vars == <<analysis, handling>>

(***************************************************************************)
(* Python values that are not always a str.  "NoneType" stands for the     *)
(* values that can be neither sliced nor measured (None, numbers,          *)
(* booleans, objects); a list can be sliced and measured but has no        *)
(* split().                                                                *)
(***************************************************************************)
Str(s) == [type |-> "str", val |-> s]
NonStr(ty) == [type |-> ty, val |-> <<>>]

(***************************************************************************)
(* Bounds of the model.                                                    *)
(***************************************************************************)
MaxTextLen == 5
MaxCorrLen == 3

TAB == "\t"
Chars == {"a", "A", " ", TAB}
CorrChars == {"a", "A", " "}

StringsUpTo(alphabet, n) == UNION {[1..k -> alphabet] : k \in 0..n}

(***************************************************************************)
(* Python string primitives used by the source.                            *)
(***************************************************************************)
Min(S) == CHOOSE x \in S : \A y \in S : x <= y
Max(S) == CHOOSE x \in S : \A y \in S : x >= y

\* str.isspace for the characters of the model
IsSpace(c) == c \in {" ", TAB}

\* s[i:j] for 0 <= i, clipped at len(s) as Python clips a slice
Slice(s, i, j) == SubSeq(s, i + 1, IF j > Len(s) THEN Len(s) ELSE j)

RECURSIVE SplitFrom(_, _, _, _)
SplitFrom(s, i, cur, acc) ==
    IF i > Len(s)
    THEN IF cur = <<>> THEN acc ELSE Append(acc, cur)
    ELSE IF IsSpace(s[i])
         THEN SplitFrom(s, i + 1, <<>>, IF cur = <<>> THEN acc ELSE Append(acc, cur))
         ELSE SplitFrom(s, i + 1, Append(cur, s[i]), acc)

\* str.split(): the maximal runs of non-whitespace characters, in order
split(s) == SplitFrom(s, 1, <<>>, <<>>)

RECURSIVE join(_)
\* ' '.join(words)
join(words) ==
    IF words = <<>> THEN <<>>
    ELSE IF Len(words) = 1 THEN words[1]
    ELSE words[1] \o <<" ">> \o join(Tail(words))

\* str.find(sub): the lowest 0-based index at which sub occurs, -1 if none
find(s, sub) ==
    LET hits == {i \in 0..(Len(s) - Len(sub)) : SubSeq(s, i + 1, i + Len(sub)) = sub}
    IN  IF hits = {} THEN -1 ELSE Min(hits)

\* the upper-case letters of the model's texts are A and I
LowerChar(c) == IF c = "A" THEN "a" ELSE IF c = "I" THEN "i" ELSE c

\* str.lower()
lower(s) == [i \in 1..Len(s) |-> LowerChar(s[i])]

(***************************************************************************)
(* difflib.SequenceMatcher(None, a, b).get_opcodes() on two word lists     *)
(* shorter than 200 words (autojunk is inactive below 200 elements).       *)
(***************************************************************************)
RECURSIVE MatchLen(_, _, _, _, _, _)
\* length of the common run of a[i:ahi] and b[j:bhi] starting at i, j
MatchLen(a, b, i, j, ahi, bhi) ==
    IF i < ahi /\ j < bhi /\ a[i + 1] = b[j + 1]
    THEN 1 + MatchLen(a, b, i + 1, j + 1, ahi, bhi)
    ELSE 0

\* the longest matching block in a[alo:ahi], b[blo:bhi]; of the longest, the
\* one starting earliest in a, and of those the one starting earliest in b
find_longest_match(a, b, alo, ahi, blo, bhi) ==
    LET cands == (alo..(ahi - 1)) \X (blo..(bhi - 1))
        len(c) == MatchLen(a, b, c[1], c[2], ahi, bhi)
    IN  IF cands = {} THEN <<alo, blo, 0>>
        ELSE LET k  == Max({len(c) : c \in cands})
                 bi == Min({c[1] : c \in {d \in cands : len(d) = k}})
                 bj == Min({c[2] : c \in {d \in cands : len(d) = k /\ d[1] = bi}})
             IN  IF k = 0 THEN <<alo, blo, 0>> ELSE <<bi, bj, k>>

RECURSIVE MatchingBlocks(_, _, _, _, _, _)
\* the matching blocks of a[alo:ahi], b[blo:bhi] in increasing order
MatchingBlocks(a, b, alo, ahi, blo, bhi) ==
    LET m == find_longest_match(a, b, alo, ahi, blo, bhi)
    IN  IF m[3] = 0 THEN <<>>
        ELSE (IF alo < m[1] /\ blo < m[2]
              THEN MatchingBlocks(a, b, alo, m[1], blo, m[2]) ELSE <<>>)
             \o <<m>> \o
             (IF m[1] + m[3] < ahi /\ m[2] + m[3] < bhi
              THEN MatchingBlocks(a, b, m[1] + m[3], ahi, m[2] + m[3], bhi) ELSE <<>>)

\* get_matching_blocks(): the blocks followed by the sentinel (len(a), len(b), 0)
get_matching_blocks(a, b) ==
    Append(MatchingBlocks(a, b, 0, Len(a), 0, Len(b)), <<Len(a), Len(b), 0>>)

RECURSIVE OpcodesFrom(_, _, _, _)
OpcodesFrom(blocks, n, i, j) ==
    IF n > Len(blocks) THEN <<>>
    ELSE LET ai   == blocks[n][1]
             bj   == blocks[n][2]
             size == blocks[n][3]
             tag  == IF i < ai /\ j < bj THEN "replace"
                     ELSE IF i < ai THEN "delete"
                     ELSE IF j < bj THEN "insert"
                     ELSE ""
             diff == IF tag = "" THEN <<>>
                     ELSE <<[tag |-> tag, i1 |-> i, i2 |-> ai, j1 |-> j, j2 |-> bj]>>
             same == IF size = 0 THEN <<>>
                     ELSE <<[tag |-> "equal", i1 |-> ai, i2 |-> ai + size,
                             j1 |-> bj, j2 |-> bj + size]>>
         IN  diff \o same \o OpcodesFrom(blocks, n + 1, ai + size, bj + size)

get_opcodes(a, b) == OpcodesFrom(get_matching_blocks(a, b), 1, 0, 0)

(***************************************************************************)
(* extract_grammar_issues (main.py 49-103)                                 *)
(***************************************************************************)
Abs(x) == IF x < 0 THEN -x ELSE x

\* lines 72-79
issue_type(original_phrase, corrected_phrase) ==
    IF lower(original_phrase) = lower(corrected_phrase) THEN "punctuation"
    ELSE IF original_phrase # <<>> /\ corrected_phrase # <<>>
            /\ Abs(Len(original_phrase) - Len(corrected_phrase)) <= 2 THEN "spelling"
    ELSE IF original_phrase = <<>> \/ corrected_phrase = <<>> THEN "word_choice"
    ELSE "grammar"

\* lines 96-97: which of the three explanation templates is used
explanation(original_phrase, corrected_phrase) ==
    IF original_phrase # <<>> /\ corrected_phrase # <<>> THEN "should_be"
    ELSE IF original_phrase # <<>> THEN "remove"
    ELSE "add"

\* the position taken from the word index alone (lines 87-89), text.find unused
issue_position_by_word_index(t, original_words, original_phrase, i1) ==
    LET words_before == join(SubSeq(original_words, 1, i1))
        est == IF words_before # <<>> THEN Len(words_before) + 1 ELSE 0
    IN  <<est, IF original_phrase # <<>> THEN est + Len(original_phrase) ELSE est>>

\* the estimate of line 88 without its test for no preceding words
issue_position_off_by_one(t, original_words, original_phrase, i1) ==
    LET start_pos == IF original_phrase # <<>> THEN find(t, original_phrase) ELSE 0
        end_pos   == IF original_phrase # <<>> THEN start_pos + Len(original_phrase) ELSE 0
    IN  IF start_pos < 0
        THEN LET est == Len(join(SubSeq(original_words, 1, i1))) + 1
             IN  <<est, IF original_phrase # <<>> THEN est + Len(original_phrase) ELSE est>>
        ELSE <<start_pos, end_pos>>

\* lines 82-89: (start_pos, end_pos) of the phrase of the opcode starting at word i1
issue_position(t, original_words, original_phrase, i1) ==
    LET start_pos == IF original_phrase # <<>> THEN find(t, original_phrase) ELSE 0
        end_pos   == IF original_phrase # <<>> THEN start_pos + Len(original_phrase) ELSE 0
    IN  IF start_pos < 0
        THEN LET words_before == join(SubSeq(original_words, 1, i1))
                 est == IF words_before # <<>> THEN Len(words_before) + 1 ELSE 0
             IN  <<est, IF original_phrase # <<>> THEN est + Len(original_phrase) ELSE est>>
        ELSE <<start_pos, end_pos>>

\* lines 66-101: the issue of one non-equal opcode
make_issue(t, original_words, corrected_words, op) ==
    LET original_phrase  == IF op.i1 < op.i2
                            THEN join(SubSeq(original_words, op.i1 + 1, op.i2)) ELSE <<>>
        corrected_phrase == IF op.j1 < op.j2
                            THEN join(SubSeq(corrected_words, op.j1 + 1, op.j2)) ELSE <<>>
        pos == issue_position(t, original_words, original_phrase, op.i1)
    IN  [original    |-> original_phrase,
         suggestion  |-> corrected_phrase,
         type        |-> issue_type(original_phrase, corrected_phrase),
         explanation |-> explanation(original_phrase, corrected_phrase),
         startIndex  |-> pos[1],
         endIndex    |-> pos[2]]

RECURSIVE IssuesFrom(_, _, _, _, _)
IssuesFrom(t, original_words, corrected_words, ops, n) ==
    IF n > Len(ops) THEN <<>>
    ELSE (IF ops[n].tag \in {"replace", "delete", "insert"}
          THEN <<make_issue(t, original_words, corrected_words, ops[n])>> ELSE <<>>)
         \o IssuesFrom(t, original_words, corrected_words, ops, n + 1)

extract_grammar_issues(t, c) ==
    IF t = c THEN <<>>
    ELSE LET original_words  == split(t)
             corrected_words == split(c)
         IN  IssuesFrom(t, original_words, corrected_words,
                        get_opcodes(original_words, corrected_words), 1)

(***************************************************************************)
(* calculate_grammar_score (main.py 106-139)                               *)
(***************************************************************************)
\* lines 119-128
issue_penalty(issue) ==
    IF issue.type = "grammar" THEN 5
    ELSE IF issue.type = "spelling" THEN 3
    ELSE IF issue.type = "punctuation" THEN 2
    ELSE IF issue.type = "word_choice" THEN 4
    ELSE 1

RECURSIVE deduct(_, _, _)
\* lines 118-128: the loop over the issues, from issue n on
deduct(s, iss, n) ==
    IF n > Len(iss) THEN s ELSE deduct(s - issue_penalty(iss[n]), iss, n + 1)

\* the thresholds of lines 133 and 135 tested with >= in the place of >
density_penalty_inclusive(n_issues, word_count) ==
    IF word_count > 0
    THEN LET q == (n_issues * 100) \div word_count
         IN  IF q >= 10 THEN 10 ELSE IF q >= 5 THEN 5 ELSE 0
    ELSE 0

\* lines 131-136: x = len(issues) * 100 / word_count is a true division; x > c
\* is decided on the integer quotient and remainder
density_penalty(n_issues, word_count) ==
    IF word_count > 0
    THEN LET q == (n_issues * 100) \div word_count
             r == (n_issues * 100) % word_count
             gt(c) == q > c \/ (q = c /\ r > 0)
         IN  IF gt(10) THEN 10 ELSE IF gt(5) THEN 5 ELSE 0
    ELSE 0

\* line 108 testing for a blank text (not text.strip()) in the place of an empty one
calculate_grammar_score_blank(t, iss) ==
    IF split(t) = <<>> THEN 0
    ELSE LET word_count == Len(split(t))
             s == deduct(100, iss, 1) - density_penalty(Len(iss), word_count)
         IN  Max({0, Min({100, s})})

\* line 139 without the lower clamp: min(100, score)
calculate_grammar_score_unclamped(t, iss) ==
    IF t = <<>> THEN 0
    ELSE LET word_count == Len(split(t))
             s == deduct(100, iss, 1) - density_penalty(Len(iss), word_count)
         IN  Min({100, s})

calculate_grammar_score(t, iss) ==
    IF t = <<>> THEN 0
    ELSE LET word_count == Len(split(t))
             s == deduct(100, iss, 1) - density_penalty(Len(iss), word_count)
         IN  Max({0, Min({100, s})})

(***************************************************************************)
(* basic_grammar_correction (main.py 290-318)                              *)
(***************************************************************************)
corrections ==
    <<
       <<<<"h", "a", "v", "e", " ", "g", "r", "a", "m", "m", "a", "r", " ", "m", "i", "s", "t", "a", "k", "e">>,
         <<"h", "a", "s", " ", "g", "r", "a", "m", "m", "a", "r", " ", "m", "i", "s", "t", "a", "k", "e">>>>,
       <<<<"h", "a", "v", "e", " ", "a", " ", "g", "r", "a", "m", "m", "a", "r", " ", "m", "i", "s", "t", "a", "k", "e">>,
         <<"h", "a", "s", " ", "a", " ", "g", "r", "a", "m", "m", "a", "r", " ", "m", "i", "s", "t", "a", "k", "e">>>>,
       <<<<"h", "a", "v", "e", " ", "m", "a", "n", "y", " ", "m", "i", "s", "t", "a", "k", "e">>,
         <<"h", "a", "v", "e", " ", "m", "a", "n", "y", " ", "m", "i", "s", "t", "a", "k", "e", "s">>>>,
       <<<<"h", "a", "v", "e", " ", "m", "a", "n", "y", " ", "m", "i", "s", "t", "a", "k", "e", "s", " ", "i", "n", " ", "i", "t">>,
         <<"h", "a", "s", " ", "m", "a", "n", "y", " ", "m", "i", "s", "t", "a", "k", "e", "s", " ", "i", "n", " ", "i", "t">>>>,
       <<<<"i", " ", "t", "h", "i", "n", "k">>,
         <<"I", " ", "t", "h", "i", "n", "k">>>>,
       <<<<"i", " ", "a", "m">>,
         <<"I", " ", "a", "m">>>>,
       <<<<"i", " ", "w", "i", "l", "l">>,
         <<"I", " ", "w", "i", "l", "l">>>>,
       <<<<"w", "r", "i", "t", "e", "d">>,
         <<"w", "r", "o", "t", "e">>>>,
       <<<<"g", "r", "a", "m", "m", "e", "r">>,
         <<"g", "r", "a", "m", "m", "a", "r">>>>,
       <<<<"s", "e", "n", "t", "a", "n", "c", "e">>,
         <<"s", "e", "n", "t", "e", "n", "c", "e">>>>,
       <<<<"t", "h", "e", "r", "e", " ", "m", "i", "s", "t", "a", "k", "e">>,
         <<"t", "h", "e", "i", "r", " ", "m", "i", "s", "t", "a", "k", "e">>>>,
       <<<<"a", "l", "o", "t">>,
         <<"a", " ", "l", "o", "t">>>>
    >>

RECURSIVE ReplaceFrom(_, _, _, _)
ReplaceFrom(s, old, new, i) ==
    IF i > Len(s) THEN <<>>
    ELSE IF i + Len(old) - 1 <= Len(s) /\ SubSeq(s, i, i + Len(old) - 1) = old
         THEN new \o ReplaceFrom(s, old, new, i + Len(old))
         ELSE <<s[i]>> \o ReplaceFrom(s, old, new, i + 1)

\* str.replace(old, new): every non-overlapping occurrence, left to right
replace(s, old, new) == ReplaceFrom(s, old, new, 1)

RECURSIVE apply_corrections(_, _)
\* lines 310-312: the loop over the corrections, from correction n on
apply_corrections(s, n) ==
    IF n > Len(corrections) THEN s
    ELSE apply_corrections(replace(s, corrections[n][1], corrections[n][2]), n + 1)

basic_grammar_correction(t) ==
    LET corrected == apply_corrections(t, 1)
    IN  IF corrected # <<>> /\ corrected[Len(corrected)] \notin {".", "!", "?"}
        THEN Append(corrected, ".")
        ELSE corrected

(***************************************************************************)
(* The requests, the answers of the hosted models and the outcomes of the  *)
(* persistence write that check_grammar (main.py 142-287) can meet.        *)
(***************************************************************************)
NoValue == NonStr("absent")

\* the texts a request carries
HandlerTexts ==
    {<<>>, <<"a">>, <<"i", " ", "a", "m">>, <<"a", "l", "o", "t", ".">>,
     <<"I", " ", "a", "m", ".">>}

\* the values a model answers as generated_text
GeneratedValues ==
    {Str(<<>>), Str(<<"a">>), Str(<<"I", " ", "a", "m">>), Str(<<"I", " ", "a", "m", ".">>),
     NonStr("NoneType"), NonStr("list")}

\* The body of a request:
\*   absent              no body, or a content type that is not JSON
\*   malformed           a body that is not valid JSON
\*   json_not_object     valid JSON that is no object (a list, a number, null)
\*   no_data_key         an object without the data key
\*   data_falsy          data is null, "", {}, [], 0 or false
\*   data_scalar         data is a non-zero number or true
\*   data_seq_no_text    data is a non-empty string or list that does not hold "text"
\*   data_seq_with_text  data is a string or list that holds "text"
\*   data_without_text   data is a non-empty object without the text key
\*   text_not_str        data.text is null or a number
\*   text                data.text is a string
BodyKinds ==
    {"absent", "malformed", "json_not_object", "no_data_key", "data_falsy",
     "data_scalar", "data_seq_no_text", "data_seq_with_text", "data_without_text",
     "text_not_str"}

RequestBodies ==
    {[kind |-> k, text |-> <<>>] : k \in BodyKinds}
    \cup {[kind |-> "text", text |-> t] : t \in HandlerTexts}

NoBody == [kind |-> "none", text |-> <<>>]

\* What a call of a hosted model does:
\*   timeout            requests.post raises
\*   http_error         a status other than 200
\*   bad_json           status 200, response.json() raises
\*   list_of_dict       status 200, [{"generated_text": v, ...}, ...]
\*   list_of_dict_without  status 200, a list whose first element is an object
\*                      without generated_text
\*   list_of_scalar     status 200, a list whose first element is a number or null
\*   list_of_str        status 200, a list whose first element is a string
\*   empty_list         status 200, []
\*   dict               status 200, {"generated_text": v, ...}
\*   dict_without       status 200, an object without generated_text
\*   scalar             status 200, a number, a string or null
PlainKinds ==
    {"timeout", "http_error", "bad_json", "list_of_dict_without", "list_of_scalar",
     "list_of_str", "empty_list", "dict_without", "scalar"}

ModelOutcomes ==
    {[kind |-> k, generated_text |-> NoValue] : k \in PlainKinds}
    \cup {[kind |-> k, generated_text |-> v] :
            k \in {"list_of_dict", "dict"}, v \in GeneratedValues}

NoCall == [kind |-> "not_called", generated_text |-> NoValue]

\* lines 38-43
CORS_HEADERS ==
    ("Access-Control-Allow-Origin" :> "*")
    @@ ("Access-Control-Allow-Methods" :> "GET, POST, OPTIONS")
    @@ ("Access-Control-Allow-Headers" :> "Content-Type")
    @@ ("Access-Control-Max-Age" :> "3600")

\* lines 157-158
JSON_HEADERS == CORS_HEADERS @@ ("Content-Type" :> "application/json")

NoHeaders == [h \in {} |-> ""]

NoResult == [correctedText |-> <<>>, issues |-> <<>>, score |-> -1]

NoResponse == [kind |-> "none", error |-> "", id |-> "", result |-> NoResult]

\* the preflight answered with the default status in the place of 204
preflight_response_200 ==
    [status  |-> 200,
     body    |-> [kind |-> "empty", error |-> "", id |-> "", result |-> NoResult],
     headers |-> CORS_HEADERS]

\* lines 148-154: the answer to a preflight request
preflight_response ==
    [status  |-> 204,
     body    |-> [kind |-> "empty", error |-> "", id |-> "", result |-> NoResult],
     headers |-> CORS_HEADERS]

\* lines 165-167
bad_request_response ==
    [status  |-> 400,
     body    |-> [kind |-> "error", error |-> "No text provided", id |-> "",
                  result |-> NoResult],
     headers |-> JSON_HEADERS]

\* lines 277-287: the answer when an exception reaches the outer handler
error_response ==
    [status  |-> 500,
     body    |-> [kind |-> "error", error |-> "Grammar checking failed", id |-> "",
                  result |-> NoResult],
     headers |-> JSON_HEADERS]

\* lines 162-170: "text" when the text is read, "bad_request" when the check of
\* line 164 answers 400, "exception" when a line raises
parse_request(b) ==
    CASE b.kind \in {"absent", "malformed"} -> "exception"   \* get_json() raises, or None.get
      [] b.kind = "json_not_object" -> "exception"            \* no .get on the value
      [] b.kind \in {"no_data_key", "data_falsy"} -> "bad_request"
      [] b.kind = "data_scalar" -> "exception"                \* 'text' in 5
      [] b.kind = "data_seq_no_text" -> "bad_request"
      [] b.kind = "data_seq_with_text" -> "exception"         \* request_data['text']
      [] b.kind = "data_without_text" -> "bad_request"
      [] b.kind = "text_not_str" -> "exception"               \* text[:50]
      [] b.kind = "text" -> "text"

\* whether v[:50] and len(v) are defined (line 197)
Sliceable(v) == v.type \in {"str", "list"}

\* line 195 raising on an unexpected format in the place of logging a warning
primary_attempt_strict(ct, o) ==
    CASE o.kind \in {"list_of_dict", "dict"} ->
             [raised |-> ~Sliceable(o.generated_text),
              corrected_text |-> o.generated_text]
      [] OTHER ->
             [raised |-> TRUE, corrected_text |-> ct]

\* lines 175-203: the try block of the primary model; raised when control
\* reaches the except clause of line 202
primary_attempt(ct, o) ==
    CASE o.kind \in {"timeout", "http_error", "bad_json"} ->
             [raised |-> TRUE, corrected_text |-> ct]
      [] o.kind = "list_of_scalar" ->                   \* "generated_text" in result[0]
             [raised |-> TRUE, corrected_text |-> ct]
      [] o.kind \in {"list_of_dict", "dict"} ->         \* lines 191, 193, then 197
             [raised |-> ~Sliceable(o.generated_text),
              corrected_text |-> o.generated_text]
      [] OTHER ->                                       \* line 195
             [raised |-> FALSE, corrected_text |-> ct]

\* lines 204-231: the secondary model; fallback when basic_grammar_correction
\* is applied (lines 227 and 231)
secondary_attempt(t, ct, o) ==
    CASE o.kind \in {"timeout", "http_error", "bad_json"} ->
             [fallback |-> TRUE, corrected_text |-> Str(basic_grammar_correction(t))]
      [] o.kind \in {"list_of_dict_without", "list_of_scalar", "list_of_str"} ->
             \* result[0]["generated_text"] raises
             [fallback |-> TRUE, corrected_text |-> Str(basic_grammar_correction(t))]
      [] o.kind \in {"list_of_dict", "dict"} ->         \* lines 219, 221
             [fallback |-> FALSE, corrected_text |-> o.generated_text]
      [] OTHER ->                                       \* line 223
             [fallback |-> FALSE, corrected_text |-> ct]

\* lines 233-246: raised when corrected_text.split() does not exist
analyse_result(t, ct) ==
    IF ct.type # "str"
    THEN [raised |-> TRUE, issues |-> <<>>, score |-> -1]
    ELSE LET iss == extract_grammar_issues(t, ct.val)
         IN  [raised |-> FALSE, issues |-> iss,
              score |-> calculate_grammar_score(t, iss)]

\* the document of lines 254-260
document(t, ct, iss, sc) ==
    [original_text |-> t, corrected_text |-> ct.val, issues |-> iss, score |-> sc]

\* lines 251-264 without the try/except: a failed write reaches line 277
store_and_respond_unguarded(o, docs, t, ct, iss, sc) ==
    IF o \in {"client_raises", "set_raises"}
    THEN [stored  |-> docs,
          status  |-> 500,
          body    |-> [kind |-> "error", error |-> "Grammar checking failed", id |-> "",
                       result |-> NoResult],
          headers |-> JSON_HEADERS]
    ELSE [stored  |-> IF o = "stored" THEN Append(docs, document(t, ct, iss, sc)) ELSE docs,
          status  |-> 200,
          body    |-> [kind |-> "result", error |-> "",
                       id |-> IF o = "stored" THEN "document id" ELSE "uuid4",
                       result |-> [correctedText |-> ct.val, issues |-> iss, score |-> sc]],
          headers |-> JSON_HEADERS]

\* lines 248-275: the write and the response; o is what the write does
store_and_respond(o, docs, t, ct, iss, sc) ==
    [stored  |-> IF o = "stored" THEN Append(docs, document(t, ct, iss, sc)) ELSE docs,
     status  |-> 200,
     body    |-> [kind |-> "result", error |-> "",
                  id |-> IF o = "stored" THEN "document id" ELSE "uuid4",
                  result |-> [correctedText |-> ct.val, issues |-> iss, score |-> sc]],
     headers |-> JSON_HEADERS]

\* what the write can do, given the flag of lines 14-27
PersistOutcomes(initialised) ==
    IF initialised THEN {"stored", "client_raises", "set_raises"}
    ELSE {"not_initialised"}

(***************************************************************************)
(* check_grammar handling one request.                                     *)
(***************************************************************************)
NoRequest ==
    /\ method = "none"
    /\ body = NoBody
    /\ firebase_initialized = FALSE
    /\ primary = NoCall
    /\ secondary = NoCall
    /\ persist = "not_reached"
    /\ calls = <<>>
    /\ parsed = FALSE
    /\ stored = <<>>
    /\ status = 0
    /\ response = NoResponse
    /\ headers = NoHeaders

Init ==
    /\ pc = "start"
    /\ text = <<>>
    /\ corrected_text = Str(<<>>)
    /\ issues = <<>>
    /\ score = -1
    /\ method \in {"POST", "OPTIONS"}
    /\ body \in RequestBodies
    /\ firebase_initialized \in BOOLEAN
    /\ primary = NoCall
    /\ secondary = NoCall
    /\ persist = "not_reached"
    /\ calls = <<>>
    /\ parsed = FALSE
    /\ stored = <<>>
    /\ status = 0
    /\ response = NoResponse
    /\ headers = NoHeaders

Send(r) ==
    /\ status' = r.status
    /\ response' = r.body
    /\ headers' = r.headers
    /\ pc' = "done"

\* lines 147-154
Preflight ==
    /\ pc = "start"
    /\ method = "OPTIONS"
    /\ Send(preflight_response)
    /\ UNCHANGED <<text, corrected_text, issues, score, method, body,
                   firebase_initialized, primary, secondary, persist, calls, parsed,
                   stored>>

\* lines 157-172
ParseRequest ==
    /\ pc = "start"
    /\ method = "POST"
    /\ parsed' = TRUE
    /\ LET r == parse_request(body)
       IN  IF r = "text"
           THEN /\ text' = body.text
                /\ corrected_text' = Str(body.text)
                /\ pc' = "primary"
                /\ UNCHANGED <<status, response, headers>>
           ELSE /\ Send(IF r = "bad_request" THEN bad_request_response ELSE error_response)
                /\ UNCHANGED <<text, corrected_text>>
    /\ UNCHANGED <<issues, score, method, body, firebase_initialized, primary,
                   secondary, persist, calls, stored>>

\* lines 175-203
CallPrimary ==
    /\ pc = "primary"
    /\ \E o \in ModelOutcomes :
          LET r == primary_attempt(corrected_text, o)
          IN  /\ primary' = o
              /\ calls' = Append(calls, "primary")
              /\ corrected_text' = r.corrected_text
              /\ pc' = IF r.raised THEN "secondary" ELSE "analyse"
    /\ UNCHANGED <<text, issues, score, method, body, firebase_initialized,
                   secondary, persist, parsed, stored, status, response, headers>>

\* lines 204-231
CallSecondary ==
    /\ pc = "secondary"
    /\ \E o \in ModelOutcomes :
          LET r == secondary_attempt(text, corrected_text, o)
          IN  /\ secondary' = o
              /\ calls' = calls \o <<"secondary">>
                                \o (IF r.fallback THEN <<"basic">> ELSE <<>>)
              /\ corrected_text' = r.corrected_text
    /\ pc' = "analyse"
    /\ UNCHANGED <<text, issues, score, method, body, firebase_initialized,
                   primary, persist, parsed, stored, status, response, headers>>

\* lines 233-246, and 277-287 when they raise
AnalyseResult ==
    /\ pc = "analyse"
    /\ LET r == analyse_result(text, corrected_text)
       IN  IF r.raised
           THEN /\ Send(error_response)
                /\ UNCHANGED <<issues, score>>
           ELSE /\ issues' = r.issues
                /\ score' = r.score
                /\ pc' = "persist"
                /\ UNCHANGED <<status, response, headers>>
    /\ UNCHANGED <<text, corrected_text, method, body, firebase_initialized,
                   primary, secondary, persist, calls, parsed, stored>>

\* lines 248-275
StoreAndRespond ==
    /\ pc = "persist"
    /\ \E o \in PersistOutcomes(firebase_initialized) :
          LET r == store_and_respond(o, stored, text, corrected_text, issues, score)
          IN  /\ persist' = o
              /\ stored' = r.stored
              /\ Send(r)
    /\ UNCHANGED <<text, corrected_text, issues, score, method, body,
                   firebase_initialized, primary, secondary, calls, parsed>>

Next ==
    \/ Preflight
    \/ ParseRequest
    \/ CallPrimary
    \/ CallSecondary
    \/ AnalyseResult
    \/ StoreAndRespond

Spec == Init /\ [][Next]_vars

(***************************************************************************)
(* Vocabulary of the claims about the handler.                             *)
(***************************************************************************)
\* the request carries no text field
CarriesNoText(b) ==
    b.kind \in {"absent", "malformed", "json_not_object", "no_data_key", "data_falsy",
                "data_scalar", "data_seq_no_text", "data_seq_with_text",
                "data_without_text"}

IsPrefix(s, t) == Len(s) <= Len(t) /\ s = SubSeq(t, 1, Len(s))

Attempted(name) == \E n \in 1..Len(calls) : calls[n] = name

\* the call ended in a status other than 200 or in an exception: raised by the
\* request, by decoding the body, or by reading the corrected text out of it
PrimaryEndedInFailure(o) ==
    \/ o.kind \in {"timeout", "http_error", "bad_json", "list_of_scalar"}
    \/ /\ o.kind \in {"list_of_dict", "dict"}
       /\ o.generated_text.type \notin {"str", "list"}

SecondaryEndedInFailure(o) ==
    o.kind \in {"timeout", "http_error", "bad_json", "list_of_dict_without",
                "list_of_scalar", "list_of_str"}

CorsHeaderNames ==
    {"Access-Control-Allow-Origin", "Access-Control-Allow-Methods",
     "Access-Control-Allow-Headers", "Access-Control-Max-Age"}

\* C4: every POST whose request carries no text field is answered with status
\* 400 and an error body, and no model is called.
C4_MissingTextIs400 ==
    (pc = "done" /\ method = "POST" /\ CarriesNoText(body)) =>
        (status = 400 /\ response.kind = "error" /\ calls = <<>>)

\* C5: every POST whose data.text is a string is answered with status 200 and
\* a result object, never with a 500, whatever the two model calls do.
C5_TextIsAnswered200 ==
    (pc = "done" /\ method = "POST" /\ body.kind = "text") =>
        (status = 200 /\ response.kind = "result")

\* C6: the corrections are attempted in the order primary, secondary, basic,
\* each at most once; the primary model is called for every POST with text;
\* the secondary model is called only after the primary call ended in a
\* non-200 status or an exception; the rule-based fallback is applied only
\* after the secondary call ended so too; and once the corrected text has
\* been obtained nothing more is attempted.
C6_FallbackChainInOrder ==
    /\ [](/\ IsPrefix(calls, <<"primary", "secondary", "basic">>)
          /\ (method = "POST" /\ body.kind = "text" /\ pc \notin {"start", "primary"})
                 => Attempted("primary")
          /\ Attempted("secondary") => PrimaryEndedInFailure(primary)
          /\ Attempted("basic") => SecondaryEndedInFailure(secondary))
    /\ [][(pc \in {"analyse", "persist", "done"}) => UNCHANGED calls]_vars

C6_Witness ==
    /\ pc = "done"
    /\ calls = <<"primary", "secondary", "basic">>
    /\ primary.kind = "http_error"
    /\ secondary.kind = "timeout"
    /\ status = 200
    /\ issues # <<>>

\* C7: when the persistence write fails or persistence is not initialised, the
\* response still has status 200 and the correctedText, issues and score that
\* were computed before the write; the id is the UUID, and the document id
\* when the write succeeds.
C7_PersistenceFailureSwallowed ==
    (pc = "done" /\ persist # "not_reached") =>
        /\ status = 200
        /\ response.kind = "result"
        /\ response.result =
               [correctedText |-> corrected_text.val, issues |-> issues, score |-> score]
        /\ response.id = IF persist = "stored" THEN "document id" ELSE "uuid4"
        /\ Len(stored) = IF persist = "stored" THEN 1 ELSE 0

C7_Witness ==
    /\ pc = "done"
    /\ persist = "set_raises"
    /\ status = 200
    /\ response.id = "uuid4"
    /\ response.result.issues # <<>>

\* C8: every OPTIONS request, whatever its body, is answered with status 204,
\* an empty body and the four CORS headers, without the body being parsed, a
\* model being called or anything being written to persistence.
C8_PreflightIs204 ==
    (pc = "done" /\ method = "OPTIONS") =>
        /\ status = 204
        /\ response.kind = "empty"
        /\ \A h \in CorsHeaderNames : h \in DOMAIN headers /\ headers[h] = CORS_HEADERS[h]
        /\ ~parsed
        /\ calls = <<>>
        /\ primary = NoCall /\ secondary = NoCall
        /\ stored = <<>> /\ persist = "not_reached"

C8_Witness ==
    /\ pc = "done"
    /\ method = "OPTIONS"
    /\ body.kind = "malformed"
    /\ status = 204

(***************************************************************************)
(* The diff and the score as pure functions: lines 234 and 238 of the      *)
(* handler applied to one (text, corrected text) pair.                     *)
(***************************************************************************)
InitExtract ==
    /\ pc = "input"
    /\ text \in StringsUpTo(Chars, MaxTextLen)
    /\ corrected_text = Str(<<>>)
    /\ issues = <<>>
    /\ score = -1
    /\ NoRequest

Analyse ==
    /\ pc = "input"
    /\ \E c \in StringsUpTo(CorrChars, MaxCorrLen) :
          LET iss == extract_grammar_issues(text, c)
          IN  /\ corrected_text' = Str(c)
              /\ issues' = iss
              /\ score' = calculate_grammar_score(text, iss)
    /\ pc' = "analysed"
    /\ UNCHANGED <<text, handling>>

NextExtract == Analyse

SpecExtract == InitExtract /\ [][NextExtract]_vars

(***************************************************************************)
(* The score as a pure function of a text and an issue list.  The texts    *)
(* are the empty text, a blank and w one-letter words; the issue lists     *)
(* grow by runs of issues of one type, unknown types included.             *)
(***************************************************************************)
MaxWords == 21
MaxIssues == 3
MaxRun == 20

IssueTypes == {"grammar", "spelling", "punctuation", "word_choice", "style"}

RECURSIVE WordsText(_)
\* w one-letter words separated by single blanks
WordsText(w) == IF w = 1 THEN <<"a">> ELSE <<"a", " ">> \o WordsText(w - 1)

ScoreTexts == {<<>>, <<" ">>} \cup {WordsText(w) : w \in 1..MaxWords}

\* an issue of type ty; calculate_grammar_score reads the type alone
TypedIssue(ty) ==
    [original |-> <<"a">>, suggestion |-> <<"A">>, type |-> ty,
     explanation |-> "should_be", startIndex |-> 0, endIndex |-> 1]

InitScore ==
    /\ pc = "input"
    /\ text \in ScoreTexts
    /\ corrected_text = Str(<<>>)
    /\ issues = <<>>
    /\ score = -1
    /\ NoRequest

ScoreText ==
    /\ pc = "input"
    /\ score' = calculate_grammar_score(text, issues)
    /\ pc' = "scored"
    /\ UNCHANGED <<text, corrected_text, issues, handling>>

\* k more issues of one type are found and the text is scored again
AddIssues ==
    /\ pc = "scored"
    /\ Len(issues) < MaxIssues
    /\ \E ty \in IssueTypes, k \in 1..MaxRun :
          /\ issues' = issues \o [n \in 1..k |-> TypedIssue(ty)]
          /\ score' = calculate_grammar_score(text, issues')
    /\ UNCHANGED <<pc, text, corrected_text, handling>>

NextScore == ScoreText \/ AddIssues

SpecScore == InitScore /\ [][NextScore]_vars

(***************************************************************************)
(* Vocabulary of the claims about the score.                               *)
(***************************************************************************)
\* the number of issues of type ty in iss
CountOfType(iss, ty) == Cardinality({n \in 1..Len(iss) : iss[n].type = ty})

\* P: the sum over the issues of the per-type penalty
TotalPenalty(iss) ==
    5 * CountOfType(iss, "grammar") + 4 * CountOfType(iss, "word_choice")
    + 3 * CountOfType(iss, "spelling") + 2 * CountOfType(iss, "punctuation")
    + Cardinality({n \in 1..Len(iss) :
                     iss[n].type \notin {"grammar", "word_choice", "spelling", "punctuation"}})

\* D: the density penalty for n issues in w words
DensityOf(n, w) ==
    IF w > 0 /\ 100 * n > 10 * w THEN 10
    ELSE IF w > 0 /\ 5 * w < 100 * n /\ 100 * n <= 10 * w THEN 5
    ELSE 0

ClaimedScore(t, iss) ==
    LET raw == 100 - TotalPenalty(iss) - DensityOf(Len(iss), Len(split(t)))
    IN  IF raw < 0 THEN 0 ELSE IF raw > 100 THEN 100 ELSE raw

\* C2: for every text and every issue list, of any length and with any issue
\* types, the score returned by calculate_grammar_score is an integer in 0..100.
C2_ScoreInRange ==
    pc = "scored" => score \in 0..100

\* the clamp at 0 is what keeps the score in range: the deductions exceed 100
C2_Witness ==
    /\ pc = "scored"
    /\ text # <<>>
    /\ TotalPenalty(issues) > 100
    /\ \E n \in 1..Len(issues) : issues[n].type = "style"
    /\ score = 0

\* C9: for every non-empty text and issue list the score is
\* max(0, min(100, 100 - P - D)), P the sum of the per-type penalties and D
\* the density penalty; and the score never increases when issues are added.
C9_ScoreFormula ==
    /\ [](pc = "scored" /\ text # <<>> => score = ClaimedScore(text, issues))
    /\ [][pc = "scored" /\ Len(issues') > Len(issues) => score' <= score]_vars

\* one issue in exactly ten words: the density is 10 per hundred, which is
\* above 5 and not above 10
C9_Witness ==
    /\ pc = "scored"
    /\ Len(split(text)) = 10
    /\ Len(issues) = 1
    /\ issues[1].type = "punctuation"
    /\ score = 93

(***************************************************************************)
(* Vocabulary of the claims about the diff.                                *)
(***************************************************************************)
\* the 0-based offsets at which the words of s start
WordStarts(s) ==
    {p \in 0..(Len(s) - 1) : ~IsSpace(s[p + 1]) /\ (p = 0 \/ IsSpace(s[p]))}

\* the offset of the k-th word (k = 1, 2, ...) of s
WordOffset(s, k) ==
    CHOOSE p \in WordStarts(s) : Cardinality({q \in WordStarts(s) : q < p}) = k - 1

\* the positions at which the word lists a and b of equal length differ
DiffPositions(a, b) == {k \in 1..Len(a) : a[k] # b[k]}

\* t and c have the same number of words and differ in exactly one of them
OneWordSubstituted(t, c) ==
    /\ Len(split(t)) = Len(split(c))
    /\ Cardinality(DiffPositions(split(t), split(c))) = 1

SubstitutedAt(t, c) == CHOOSE k \in DiffPositions(split(t), split(c)) : TRUE

\* the single issue is the substitution of word k, located where word k stands
OneIssueAtWord(t, c, iss, k) ==
    /\ Len(iss) = 1
    /\ iss[1].original = split(t)[k]
    /\ iss[1].suggestion = split(c)[k]
    /\ iss[1].startIndex = WordOffset(t, k)
    /\ iss[1].endIndex = WordOffset(t, k) + Len(split(t)[k])
    /\ Slice(t, iss[1].startIndex, iss[1].endIndex) = split(t)[k]

\* word k of t is a word of t only at k, its replacement is no word of t, and
\* it does not occur as a substring of t before its own offset
UnambiguousSubstitution(t, c, k) ==
    LET a == split(t)
        b == split(c)
    IN  /\ \A m \in 1..Len(a) : m # k => a[m] # a[k]
        /\ \A m \in 1..Len(a) : a[m] # b[k]
        /\ \A p \in 0..(WordOffset(t, k) - 1) : Slice(t, p, p + Len(a[k])) # a[k]

\* C1 as stated: whenever the corrected text is identical to the original text,
\* the issue list is empty and the score of the text with no issues is 100.
C1_IdenticalScores100 ==
    (pc = "analysed" /\ corrected_text = Str(text)) => (issues = <<>> /\ score = 100)

\* C1 amended: whenever the corrected text is identical to a non-empty original
\* text, the issue list is empty and the score is 100 (for the empty text the
\* issue list is empty and the score is 0).
C1_IdenticalNonEmptyScores100 ==
    (pc = "analysed" /\ corrected_text = Str(text)) =>
        /\ issues = <<>>
        /\ score = IF text = <<>> THEN 0 ELSE 100

C1_Witness ==
    /\ pc = "analysed"
    /\ corrected_text = Str(text)
    /\ Len(split(text)) >= 2
    /\ score = 100

\* C3 as stated: whenever the original and the corrected text have the same
\* number of words and differ in exactly one word, there is exactly one issue,
\* its original is the replaced word, its suggestion the replacing word, and
\* startIndex/endIndex are the offsets of the replaced word in the text.
C3_OneSubstitutionOneIssue ==
    (pc = "analysed" /\ OneWordSubstituted(text, corrected_text.val)) =>
        OneIssueAtWord(text, corrected_text.val, issues, SubstitutedAt(text, corrected_text.val))

\* C3 amended: the same, for texts of fewer than 200 words in which the
\* replaced word is no other word of the original, the replacing word is no
\* word of the original, and the replaced word does not occur as a substring
\* of the original before its own position.
C3_UnambiguousSubstitutionOneIssue ==
    (/\ pc = "analysed"
     /\ OneWordSubstituted(text, corrected_text.val)
     /\ UnambiguousSubstitution(text, corrected_text.val,
                                SubstitutedAt(text, corrected_text.val))) =>
        OneIssueAtWord(text, corrected_text.val, issues, SubstitutedAt(text, corrected_text.val))

C3_Witness ==
    /\ pc = "analysed"
    /\ OneWordSubstituted(text, corrected_text.val)
    /\ Len(split(text)) >= 2
    /\ SubstitutedAt(text, corrected_text.val) = 2
    /\ UnambiguousSubstitution(text, corrected_text.val, 2)
    /\ Len(issues) = 1
    /\ issues[1].startIndex > 0

\* C10: every issue emitted for any original and corrected text satisfies
\* 0 <= startIndex <= endIndex <= len(text) and endIndex - startIndex =
\* len(original), whether the phrase was found in the text or its position
\* was estimated; an insertion (empty original) has startIndex = endIndex = 0.
C10_IssueOffsetsInRange ==
    pc = "analysed" =>
        \A n \in 1..Len(issues) :
            /\ 0 <= issues[n].startIndex
            /\ issues[n].startIndex <= issues[n].endIndex
            /\ issues[n].endIndex <= Len(text)
            /\ issues[n].endIndex - issues[n].startIndex = Len(issues[n].original)
            /\ issues[n].original = <<>> =>
                   (issues[n].startIndex = 0 /\ issues[n].endIndex = 0)

\* an issue whose phrase is not in the text, located by the word-index estimate
\* after at least one preceding word, and reaching the end of the text
C10_Witness ==
    /\ pc = "analysed"
    /\ \E n \in 1..Len(issues) :
          /\ issues[n].original # <<>>
          /\ find(text, issues[n].original) = -1
          /\ issues[n].startIndex > 0
          /\ issues[n].endIndex = Len(text)

====
